---------------------------- MODULE Spec2Model ----------------------------
(***************************************************************************)
(* wir2wav: the WIR parser (src/src/lib.rs), the wav writer adapter        *)
(* (Wir::write_to_wav) and the command line driver (src/src/main.rs).      *)
(*                                                                         *)
(* Representation.                                                         *)
(*  - a byte is a number in 0..255, a buffer a sequence of bytes; the      *)
(*    cursor position is the 0-based offset of the next byte, so byte      *)
(*    offset k of the file is buf[k+1].                                    *)
(*  - a String is its UTF-8 byte sequence (String::from_utf8 validates     *)
(*    and keeps the bytes).                                                *)
(*  - u16 and u32 are numbers; the inputs keep every u32 below 2^31, the   *)
(*    largest number TLC holds.  Buffers are far shorter than 2^32, so     *)
(*    the cast `position() as u32` does not wrap.                          *)
(*  - an f32 is its 32-bit pattern written most significant byte first     *)
(*    (sign and exponent byte first); read_f32::<LittleEndian> turns the   *)
(*    four bytes of the file around.                                       *)
(*  - a panic ends the process: outcome = "Panic", and panic records the   *)
(*    source line of the failing unwrap and the error it held.             *)
(***************************************************************************)
EXTENDS Integers, Sequences, FiniteSets, TLC

VARIABLES
    dstOk,      \* main.rs:46  the destination is an existing directory
    srcs,       \* main.rs:28  the source files, as the file system presents them
    idx,        \* main.rs:51  1-based index of the source file being processed
    pc,         \* the statement about to run
    opened,     \* indices of the source files File::open was called on
    buf,        \* lib.rs:76   the bytes the parser's cursor wraps
    position,   \* lib.rs:76   the cursor's position
    header,     \* lib.rs:105-115 the header fields decoded so far
    body,       \* lib.rs:91   the channel-major body
    ch,         \* lib.rs:97 / lib.rs:20  index of the inner for loop
    wavspec,    \* main.rs:83  the WavSpec handed to the encoder
    outputs,    \* per source file: what the encoder was asked to do
    outcome,    \* "Running", "Success", "Failure" (ExitCode) or "Panic"
    panic,      \* the panic, when outcome = "Panic"
    testMagic,  \* lib.rs:191  the string parse_magic returned there
    testCheck   \* lib.rs:192  what check_magic answered there

vars == <<dstOk, srcs, idx, pc, opened, buf, position, header, body, ch,
          wavspec, outputs, outcome, panic, testMagic, testCheck>>

-----------------------------------------------------------------------------
(* Bounds of the model. *)

\* Longest body (bytes after the 40 header bytes) of an input file.
MaxBodyBytes == 16
\* Largest channel count an input declares.
MaxChannels == 3
\* Most source files on one command line.
MaxFiles == 3
\* Longest input handed to the parse_magic test.
MaxMagicLen == 5

-----------------------------------------------------------------------------
(* Results: Ok(value), Err(error), or a panic inside the callee. *)

Ok(v, p) == [kind |-> "Ok", val |-> v, err |-> "none", pos |-> p, line |-> 0]

Err(e, p) == [kind |-> "Err", val |-> 0, err |-> e, pos |-> p, line |-> 0]

Panicked(e, p, l) == [kind |-> "Panic", val |-> 0, err |-> e, pos |-> p, line |-> l]

NoPanic == [line |-> 0, err |-> "none"]

-----------------------------------------------------------------------------
(* The byte cursor: std::io::Cursor<Vec<u8>> and byteorder::ReadBytesExt. *)

\* Cursor::read_exact: n bytes from pos, or UnexpectedEof when fewer remain
\* (the cursor is then left at the end of the buffer).
read_exact(b, pos, n) ==
    IF pos + n <= Len(b)
    THEN Ok(SubSeq(b, pos + 1, pos + n), pos + n)
    ELSE Err("IoError", Len(b))

u16_from_le(x) == x[1] + 256 * x[2]

u32_from_le(x) == x[1] + 256 * x[2] + 65536 * x[3] + 16777216 * x[4]

\* The bit pattern of the f32, most significant byte first.
f32_from_le(x) == <<x[4], x[3], x[2], x[1]>>

read_u16(b, pos) ==
    LET r == read_exact(b, pos, 2)
    IN  IF r.kind = "Ok" THEN Ok(u16_from_le(r.val), r.pos) ELSE r

read_u32(b, pos) ==
    LET r == read_exact(b, pos, 4)
    IN  IF r.kind = "Ok" THEN Ok(u32_from_le(r.val), r.pos) ELSE r

read_f32(b, pos) ==
    LET r == read_exact(b, pos, 4)
    IN  IF r.kind = "Ok" THEN Ok(f32_from_le(r.val), r.pos) ELSE r

-----------------------------------------------------------------------------
(* String::from_utf8: the bytes are a well-formed UTF-8 sequence. *)

IsCont(b) == b >= 128 /\ b <= 191

RECURSIVE Utf8ValidFrom(_, _)
Utf8ValidFrom(s, k) ==
    IF k > Len(s) THEN TRUE
    ELSE LET b == s[k] IN
         IF b < 128 THEN Utf8ValidFrom(s, k + 1)
         ELSE IF b >= 194 /\ b <= 223
         THEN /\ k + 1 <= Len(s)
              /\ IsCont(s[k + 1])
              /\ Utf8ValidFrom(s, k + 2)
         ELSE IF b >= 224 /\ b <= 239
         THEN /\ k + 2 <= Len(s)
              /\ IsCont(s[k + 1])
              /\ (b = 224 => s[k + 1] >= 160)
              /\ (b = 237 => s[k + 1] <= 159)
              /\ IsCont(s[k + 2])
              /\ Utf8ValidFrom(s, k + 3)
         ELSE IF b >= 240 /\ b <= 244
         THEN /\ k + 3 <= Len(s)
              /\ IsCont(s[k + 1])
              /\ (b = 240 => s[k + 1] >= 144)
              /\ (b = 244 => s[k + 1] <= 143)
              /\ IsCont(s[k + 2])
              /\ IsCont(s[k + 3])
              /\ Utf8ValidFrom(s, k + 4)
         ELSE FALSE

from_utf8(bytes, p) ==
    IF Utf8ValidFrom(bytes, 1) THEN Ok(bytes, p) ELSE Err("InvalidCharacterError", p)

-----------------------------------------------------------------------------
(* The field parsers of Parser, lib.rs:132-174. *)

parse_magic(b, pos) ==
    LET r == read_exact(b, pos, 4)
    IN  IF r.kind = "Ok" THEN from_utf8(r.val, r.pos) ELSE r

parse_file_size(b, pos) == read_u32(b, pos)

parse_version_short(b, pos) ==
    LET r == read_exact(b, pos, 4)
    IN  IF r.kind = "Ok" THEN from_utf8(r.val, r.pos) ELSE r

parse_version(b, pos) ==
    LET r == read_exact(b, pos, 8)
    IN  IF r.kind = "Ok" THEN from_utf8(r.val, r.pos) ELSE r

parse_header_size(b, pos) == read_u32(b, pos)

parse_i3_variable(b, pos) == read_u16(b, pos)

parse_channels(b, pos) == read_u16(b, pos)

parse_sample_rate(b, pos) == read_u32(b, pos)

parse_fs2_variable(b, pos) == read_u32(b, pos)

parse_i4_channels(b, pos) == read_u16(b, pos)

parse_i5_variable(b, pos) == read_u16(b, pos)

\* lib.rs:172 unwraps the read itself: a short buffer panics inside the
\* field parser instead of returning the error.
parse_end_of_header(b, pos) ==
    LET r == read_exact(b, pos, 4)
    IN  IF r.kind = "Ok" THEN from_utf8(r.val, r.pos)
        ELSE Panicked(r.err, r.pos, 172)

\* lib.rs:177  check_magic
check_magic_prefix(magic_word) ==
    Len(magic_word) >= 3 /\ SubSeq(magic_word, 1, 3) = <<119, 118, 73>>

check_magic(magic_word) == magic_word = <<119, 118, 73, 82>>


-----------------------------------------------------------------------------
(* Parser::parse_header, lib.rs:104-131: eleven field parsers in a row,    *)
(* each result unwrapped.                                                  *)

\* One `let field = self.parse_x().unwrap();` of parse_header at `line`.
HeaderStep(r, field, nextpc, line) ==
    /\ position' = r.pos
    /\ IF r.kind = "Ok"
       THEN /\ header' = header @@ (field :> r.val)
            /\ pc' = nextpc
            /\ UNCHANGED <<outcome, panic>>
       ELSE /\ pc' = "panicked"
            /\ outcome' = "Panic"
            /\ panic' = [line |-> IF r.kind = "Panic" THEN r.line ELSE line,
                         err |-> r.err]
            /\ UNCHANGED header
    /\ UNCHANGED <<dstOk, srcs, idx, opened, buf, body, ch, wavspec, outputs,
                   testMagic, testCheck>>

ParseMagic ==
    /\ pc = "parse_magic"
    /\ HeaderStep(parse_magic(buf, position), "magic", "parse_file_size", 105)

ParseFileSize ==
    /\ pc = "parse_file_size"
    /\ HeaderStep(parse_file_size(buf, position), "file_size", "parse_version", 106)

ParseVersion ==
    /\ pc = "parse_version"
    /\ HeaderStep(parse_version(buf, position), "version", "parse_header_size", 107)

ParseHeaderSize ==
    /\ pc = "parse_header_size"
    /\ HeaderStep(parse_header_size(buf, position), "header_size", "parse_i3_variable", 108)

ParseI3Variable ==
    /\ pc = "parse_i3_variable"
    /\ HeaderStep(parse_i3_variable(buf, position), "i3", "parse_channels", 109)

ParseChannels ==
    /\ pc = "parse_channels"
    /\ HeaderStep(parse_channels(buf, position), "channels", "parse_sample_rate", 110)

ParseSampleRate ==
    /\ pc = "parse_sample_rate"
    /\ HeaderStep(parse_sample_rate(buf, position), "sample_rate", "parse_fs2_variable", 111)

ParseFs2Variable ==
    /\ pc = "parse_fs2_variable"
    /\ HeaderStep(parse_fs2_variable(buf, position), "fs2", "parse_i4_channels", 112)

ParseI4Channels ==
    /\ pc = "parse_i4_channels"
    /\ HeaderStep(parse_i4_channels(buf, position), "i4", "parse_i5_variable", 113)

ParseI5Variable ==
    /\ pc = "parse_i5_variable"
    /\ HeaderStep(parse_i5_variable(buf, position), "i5", "parse_end_of_header", 114)

\* The last field; parse_header then returns Ok(header) (lib.rs:117-130) and
\* Parser::parse unwraps it (lib.rs:86) and goes on to parse_body.
ParseEndOfHeader ==
    /\ pc = "parse_end_of_header"
    /\ HeaderStep(parse_end_of_header(buf, position), "data", "body_init", 115)

-----------------------------------------------------------------------------
(* Parser::parse_body, lib.rs:90-103. *)

\* lib.rs:96  the loop condition
BodyWhileCondInclusive(pos, file_size) == pos <= file_size

BodyWhileCond(pos, file_size) == pos < file_size

\* lib.rs:99  body[channel as usize].push(data), channel counted from 0
PushFirstChannel(b, channel, data) == [b EXCEPT ![1] = Append(@, data)]

PushSample(b, channel, data) == [b EXCEPT ![channel + 1] = Append(@, data)]

\* lib.rs:91-94
BodyInit ==
    /\ pc = "body_init"
    /\ body' = [c \in 1..header.channels |-> <<>>]
    /\ pc' = "body_while"
    /\ UNCHANGED <<dstOk, srcs, idx, opened, buf, position, header, ch, wavspec,
                   outputs, outcome, panic, testMagic, testCheck>>

\* lib.rs:96, and the return of parse_body and parse (lib.rs:102, 88)
BodyWhile ==
    /\ pc = "body_while"
    /\ IF BodyWhileCond(position, header.file_size)
       THEN ch' = 0 /\ pc' = "body_for"
       ELSE ch' = ch /\ pc' = "parse_ok"
    /\ UNCHANGED <<dstOk, srcs, idx, opened, buf, position, header, body, wavspec,
                   outputs, outcome, panic, testMagic, testCheck>>

\* lib.rs:97-100  one turn of `for channel in 0..header.channels`
BodyFor ==
    /\ pc = "body_for"
    /\ IF ch < header.channels
       THEN LET r == read_f32(buf, position) IN
            /\ position' = r.pos
            /\ IF r.kind = "Ok"
               THEN /\ body' = PushSample(body, ch, r.val)
                    /\ ch' = ch + 1
                    /\ UNCHANGED <<pc, outcome, panic>>
               ELSE /\ pc' = "panicked"
                    /\ outcome' = "Panic"
                    /\ panic' = [line |-> 98, err |-> r.err]
                    /\ UNCHANGED <<body, ch>>
       ELSE /\ pc' = "body_while"
            /\ UNCHANGED <<position, body, ch, outcome, panic>>
    /\ UNCHANGED <<dstOk, srcs, idx, opened, buf, header, wavspec, outputs,
                   testMagic, testCheck>>

-----------------------------------------------------------------------------
(* Wir::write_to_wav, lib.rs:13-26, against hound's WavWriter.  Whether a  *)
(* call of the encoder succeeds is the environment's choice.               *)

NoOutput == [created |-> FALSE, samples |-> <<>>, finalized |-> 0, result |-> "none"]

\* lib.rs:21  Vec::remove(0): the first element, and the rest shifted down
remove_last(v) == [val |-> v[Len(v)], rest |-> SubSeq(v, 1, Len(v) - 1)]

remove_first(v) == [val |-> Head(v), rest |-> Tail(v)]

\* lib.rs:18  hound::WavWriter::create(path.into(), spec)?
WavCreate ==
    /\ pc = "wav_create"
    /\ \E ok \in BOOLEAN :
          IF ok
          THEN /\ outputs' = [outputs EXCEPT ![idx].created = TRUE]
               /\ pc' = "wav_while"
          ELSE /\ outputs' = [outputs EXCEPT ![idx].result = "Err"]
               /\ pc' = "main_write_result"
    /\ UNCHANGED <<dstOk, srcs, idx, opened, buf, position, header, body, ch,
                   wavspec, outcome, panic, testMagic, testCheck>>

\* lib.rs:19  while (&mut self.body).into_iter().last().unwrap().len() > 0
WavWhile ==
    /\ pc = "wav_while"
    /\ IF Len(body) = 0
       THEN /\ pc' = "panicked"
            /\ outcome' = "Panic"
            /\ panic' = [line |-> 19, err |-> "None"]
            /\ outputs' = [outputs EXCEPT ![idx].result = "Panic"]
            /\ ch' = ch
       ELSE /\ IF Len(body[Len(body)]) > 0
               THEN ch' = 0 /\ pc' = "wav_for"
               ELSE ch' = ch /\ pc' = "wav_finalize"
            /\ UNCHANGED <<outcome, panic, outputs>>
    /\ UNCHANGED <<dstOk, srcs, idx, opened, buf, position, header, body,
                   wavspec, testMagic, testCheck>>

\* lib.rs:20-22  one turn of `for channel in &mut self.body`
WavFor ==
    /\ pc = "wav_for"
    /\ IF ch < Len(body)
       THEN IF Len(body[ch + 1]) = 0
            THEN /\ pc' = "panicked"
                 /\ outcome' = "Panic"
                 /\ panic' = [line |-> 21, err |-> "removal index"]
                 /\ outputs' = [outputs EXCEPT ![idx].result = "Panic"]
                 /\ UNCHANGED <<body, ch>>
            ELSE LET r == remove_first(body[ch + 1]) IN
                 /\ body' = [body EXCEPT ![ch + 1] = r.rest]
                 /\ \E ok \in BOOLEAN :
                       IF ok
                       THEN /\ outputs' = [outputs EXCEPT
                                             ![idx].samples = Append(@, r.val)]
                            /\ ch' = ch + 1
                            /\ pc' = pc
                       ELSE /\ outputs' = [outputs EXCEPT ![idx].result = "Err"]
                            /\ ch' = ch
                            /\ pc' = "main_write_result"
                 /\ UNCHANGED <<outcome, panic>>
       ELSE /\ pc' = "wav_while"
            /\ UNCHANGED <<body, ch, outputs, outcome, panic>>
    /\ UNCHANGED <<dstOk, srcs, idx, opened, buf, position, header, wavspec,
                   testMagic, testCheck>>

\* lib.rs:24-25  writer.finalize().unwrap(); Ok(())
WavFinalize ==
    /\ pc = "wav_finalize"
    /\ \E ok \in BOOLEAN :
          IF ok
          THEN /\ outputs' = [outputs EXCEPT ![idx].finalized = @ + 1,
                                             ![idx].result = "Ok"]
               /\ pc' = "main_write_result"
               /\ UNCHANGED <<outcome, panic>>
          ELSE /\ outputs' = [outputs EXCEPT ![idx].finalized = @ + 1,
                                             ![idx].result = "Panic"]
               /\ pc' = "panicked"
               /\ outcome' = "Panic"
               /\ panic' = [line |-> 24, err |-> "hound::Error"]
    /\ UNCHANGED <<dstOk, srcs, idx, opened, buf, position, header, body, ch,
                   wavspec, testMagic, testCheck>>

-----------------------------------------------------------------------------
(* main, main.rs:42-99. *)

\* WirHeader::to_wavspec, lib.rs:46-53
to_wavspec(h) ==
    [channels |-> h.channels, sample_rate |-> h.sample_rate,
     bits_per_sample |-> 32, sample_format |-> "Float"]

NoWavSpec == [channels |-> 0, sample_rate |-> 0,
              bits_per_sample |-> 0, sample_format |-> "none"]

\* main.rs:58, 67, 90  `return ExitCode::FAILURE;` inside the loop over srcs
SkipToNextFile(i) == [pc |-> "main_loop", outcome |-> "Running", idx |-> i + 1]

ReturnFailure(i) == [pc |-> "exit", outcome |-> "Failure", idx |-> i]

\* main.rs:46-49
MainDstCheck ==
    /\ pc = "main_dst_check"
    /\ IF dstOk
       THEN pc' = "main_loop" /\ outcome' = outcome
       ELSE pc' = "exit" /\ outcome' = "Failure"
    /\ UNCHANGED <<dstOk, srcs, idx, opened, buf, position, header, body, ch,
                   wavspec, outputs, panic, testMagic, testCheck>>

\* main.rs:51  the next source file, or main.rs:98 ExitCode::SUCCESS
MainLoop ==
    /\ pc = "main_loop"
    /\ IF idx <= Len(srcs)
       THEN pc' = "main_open" /\ outcome' = outcome
       ELSE pc' = "exit" /\ outcome' = "Success"
    /\ UNCHANGED <<dstOk, srcs, idx, opened, buf, position, header, body, ch,
                   wavspec, outputs, panic, testMagic, testCheck>>

\* main.rs:54-60  File::open
MainOpen ==
    /\ pc = "main_open"
    /\ opened' = opened \cup {idx}
    /\ IF srcs[idx].openOk
       THEN pc' = "main_read" /\ UNCHANGED <<outcome, idx>>
       ELSE LET r == ReturnFailure(idx) IN
            pc' = r.pc /\ outcome' = r.outcome /\ idx' = r.idx
    /\ UNCHANGED <<dstOk, srcs, buf, position, header, body, ch, wavspec,
                   outputs, panic, testMagic, testCheck>>

\* main.rs:61-69  read_to_end
MainRead ==
    /\ pc = "main_read"
    /\ IF srcs[idx].readOk
       THEN /\ buf' = srcs[idx].bytes
            /\ pc' = "parser_new"
            /\ UNCHANGED <<outcome, idx>>
       ELSE LET r == ReturnFailure(idx) IN
            /\ buf' = <<>>
            /\ pc' = r.pc /\ outcome' = r.outcome /\ idx' = r.idx
    /\ UNCHANGED <<dstOk, srcs, opened, position, header, body, ch, wavspec,
                   outputs, panic, testMagic, testCheck>>

\* main.rs:71-73  Parser::new(buf) (lib.rs:80-84) and the call of parse
ParserNew ==
    /\ pc = "parser_new"
    /\ position' = 0
    /\ header' = <<>>
    /\ body' = <<>>
    /\ pc' = "parse_magic"
    /\ UNCHANGED <<dstOk, srcs, idx, opened, buf, ch, wavspec, outputs, outcome,
                   panic, testMagic, testCheck>>

\* main.rs:73-83  parse returned Ok(wir); wir.header.to_wavspec()
MainWavSpec ==
    /\ pc = "parse_ok"
    /\ wavspec' = to_wavspec(header)
    /\ pc' = "main_filename"
    /\ UNCHANGED <<dstOk, srcs, idx, opened, buf, position, header, body, ch,
                   outputs, outcome, panic, testMagic, testCheck>>

\* main.rs:85-94  the output's file name
MainFileName ==
    /\ pc = "main_filename"
    /\ IF srcs[idx].hasName
       THEN pc' = "wav_create" /\ UNCHANGED <<outcome, idx>>
       ELSE LET r == ReturnFailure(idx) IN
            pc' = r.pc /\ outcome' = r.outcome /\ idx' = r.idx
    /\ UNCHANGED <<dstOk, srcs, opened, buf, position, header, body, ch, wavspec,
                   outputs, panic, testMagic, testCheck>>

\* main.rs:95  wir.write_to_wav(dst_path, spec).unwrap(), and the loop's next turn
MainWriteResult ==
    /\ pc = "main_write_result"
    /\ IF outputs[idx].result = "Ok"
       THEN /\ idx' = idx + 1
            /\ pc' = "main_loop"
            /\ UNCHANGED <<outcome, panic>>
       ELSE /\ idx' = idx
            /\ pc' = "panicked"
            /\ outcome' = "Panic"
            /\ panic' = [line |-> 95, err |-> "hound::Error"]
    /\ UNCHANGED <<dstOk, srcs, opened, buf, position, header, body, ch, wavspec,
                   outputs, testMagic, testCheck>>

-----------------------------------------------------------------------------
(* tests::test_parse_magic, lib.rs:187-193: parse_magic on the input, then *)
(* check_magic on what it returned.                                        *)

\* lib.rs:190-191
TestParseMagic ==
    /\ pc = "test_parse_magic"
    /\ LET r == parse_magic(buf, position) IN
       /\ position' = r.pos
       /\ IF r.kind = "Ok"
          THEN /\ testMagic' = r.val
               /\ pc' = "test_check_magic"
               /\ UNCHANGED <<outcome, panic>>
          ELSE /\ testMagic' = testMagic
               /\ pc' = "panicked"
               /\ outcome' = "Panic"
               /\ panic' = [line |-> 191, err |-> r.err]
    /\ UNCHANGED <<dstOk, srcs, idx, opened, buf, header, body, ch, wavspec,
                   outputs, testCheck>>

\* lib.rs:192  assert!(check_magic(result), "magic is right")
TestCheckMagic ==
    /\ pc = "test_check_magic"
    /\ IF check_magic(testMagic)
       THEN /\ testCheck' = "true"
            /\ pc' = "test_passed"
            /\ UNCHANGED <<outcome, panic>>
       ELSE /\ testCheck' = "false"
            /\ pc' = "panicked"
            /\ outcome' = "Panic"
            /\ panic' = [line |-> 192, err |-> "magic is right"]
    /\ UNCHANGED <<dstOk, srcs, idx, opened, buf, position, header, body, ch,
                   wavspec, outputs, testMagic>>

-----------------------------------------------------------------------------
(* The input files the specifications draw from.  The layout is that of    *)
(* WirHeader (lib.rs:30-42) in the order parse_header reads it.            *)

le16(n) == <<n % 256, n \div 256>>

le32(n) == <<n % 256, (n \div 256) % 256, (n \div 65536) % 256, n \div 16777216>>

\* "wvIR", "RIFF", "ver1fmt ", "data"
MagicWvIR == <<119, 118, 73, 82>>

MagicRIFF == <<82, 73, 70, 70>>

VersionVer1 == <<118, 101, 114, 49, 102, 109, 116, 32>>

\* a version tag with a two-byte and a three-byte character
VersionMultiByte == <<195, 169, 226, 130, 172, 102, 109, 116>>

DataTag == <<100, 97, 116, 97>>

\* tags that are not UTF-8: a stray 0xFF, a sequence cut short, a lone
\* continuation byte
BadMagic == <<255, 118, 73, 82>>

BadVersions == {<<118, 101, 114, 255, 102, 109, 116, 32>>,
                <<118, 101, 114, 49, 102, 109, 116, 195>>,
                <<128, 101, 114, 49, 102, 109, 116, 32>>}

BadData == <<100, 97, 116, 192>>

\* The 40 header bytes; i3, sample_rate, fs2, i4, i5 as in the tests of lib.rs
\* (i3 and i4 with a high byte added, so that the byte order shows).
MkHeader(magic, file_size, version, header_size, channels, data) ==
    magic \o le32(file_size) \o version \o le32(header_size) \o le16(515)
          \o le16(channels) \o le32(96000) \o le32(384000) \o le16(260)
          \o le16(23) \o data

\* n body bytes, all different
BodyBytes(n) == [j \in 1..n |-> (91 + 37 * j) % 256]

FileSizes == {0, 39, 1149048} \cup (40 .. (40 + MaxBodyBytes + 4))

HeaderSizes == {0, 16, 40, 16909060}

File(bytes, openOk, readOk, hasName) ==
    [bytes |-> bytes, openOk |-> openOk, readOk |-> readOk, hasName |-> hasName]

\* complete headers with valid tags, every declared size and channel count,
\* and a body of every length
BodyBuffers ==
    {MkHeader(m, fs, VersionVer1, hs, c, DataTag) \o BodyBytes(n) :
        m \in {MagicWvIR, MagicRIFF}, fs \in FileSizes, hs \in HeaderSizes,
        c \in 0..MaxChannels, n \in 0..MaxBodyBytes}

\* a stereo file of one frame, and every proper prefix of its header
StereoBuffer == MkHeader(MagicWvIR, 48, VersionVer1, 16, 2, DataTag) \o BodyBytes(8)

TruncatedBuffers == {SubSeq(StereoBuffer, 1, n) : n \in 0..39}

BadTagBuffers ==
    {MkHeader(BadMagic, 48, VersionVer1, 16, 2, DataTag) \o BodyBytes(8),
     MkHeader(MagicWvIR, 48, VersionVer1, 16, 2, BadData) \o BodyBytes(8),
     MkHeader(MagicWvIR, 48, VersionMultiByte, 16, 2, DataTag) \o BodyBytes(8)}
    \cup {MkHeader(MagicWvIR, 48, v, 16, 2, DataTag) \o BodyBytes(n) :
            v \in BadVersions, n \in {0, 8}}
    \cup {SubSeq(MkHeader(MagicWvIR, 48, v, 16, 2, DataTag), 1, n) :
            v \in BadVersions, n \in 8..39}

ParserFiles ==
    {File(b, TRUE, TRUE, TRUE) :
        b \in BodyBuffers \cup TruncatedBuffers \cup BadTagBuffers}
    \cup {File(StereoBuffer, FALSE, TRUE, TRUE),
          File(StereoBuffer, TRUE, FALSE, TRUE),
          File(StereoBuffer, TRUE, TRUE, FALSE)}

\* One source file of any kind, or a bad destination directory.
ParserRuns ==
    {[dstOk |-> TRUE, srcs |-> <<f>>] : f \in ParserFiles}
    \cup {[dstOk |-> FALSE, srcs |-> <<File(StereoBuffer, TRUE, TRUE, TRUE)>>]}

\* The kinds of file of a batch: two good ones, and one per way to fail.
MonoBuffer == MkHeader(MagicWvIR, 48, VersionVer1, 16, 1, DataTag) \o BodyBytes(8)

ZeroChannelBuffer == MkHeader(MagicWvIR, 44, VersionVer1, 16, 0, DataTag) \o BodyBytes(4)

BatchFiles ==
    {File(MonoBuffer, TRUE, TRUE, TRUE),
     File(StereoBuffer, TRUE, TRUE, TRUE),
     File(StereoBuffer, FALSE, TRUE, TRUE),
     File(StereoBuffer, TRUE, FALSE, TRUE),
     File(StereoBuffer, TRUE, TRUE, FALSE),
     File(SubSeq(StereoBuffer, 1, 22), TRUE, TRUE, TRUE),
     File(ZeroChannelBuffer, TRUE, TRUE, TRUE)}

BatchRuns ==
    {[dstOk |-> TRUE, srcs |-> s] :
        s \in UNION {[1..n -> BatchFiles] : n \in 1..MaxFiles}}
    \cup {[dstOk |-> FALSE, srcs |-> <<File(StereoBuffer, TRUE, TRUE, TRUE)>>]}

\* The inputs of the parse_magic test: every string of at most MaxMagicLen
\* bytes over these.
MagicAlphabet == {119, 118, 73, 82, 70, 255}

MagicInputs == UNION {[1..n -> MagicAlphabet] : n \in 0..MaxMagicLen}

-----------------------------------------------------------------------------
(* Specifications. *)

\* The state main starts in, for the command line and file system `run`.
MainInit(run) ==
    /\ dstOk = run.dstOk
    /\ srcs = run.srcs
    /\ idx = 1
    /\ pc = "main_dst_check"
    /\ opened = {}
    /\ buf = <<>>
    /\ position = 0
    /\ header = <<>>
    /\ body = <<>>
    /\ ch = 0
    /\ wavspec = NoWavSpec
    /\ outputs = [i \in 1..Len(run.srcs) |-> NoOutput]
    /\ outcome = "Running"
    /\ panic = NoPanic
    /\ testMagic = <<>>
    /\ testCheck = "none"

\* main on one source file
Init == \E run \in ParserRuns : MainInit(run)

\* main on several source files
InitBatch == \E run \in BatchRuns : MainInit(run)

\* the parse_magic test on one input
InitMagic ==
    /\ dstOk = TRUE
    /\ srcs = <<>>
    /\ idx = 1
    /\ pc = "test_parse_magic"
    /\ opened = {}
    /\ buf \in MagicInputs
    /\ position = 0
    /\ header = <<>>
    /\ body = <<>>
    /\ ch = 0
    /\ wavspec = NoWavSpec
    /\ outputs = <<>>
    /\ outcome = "Running"
    /\ panic = NoPanic
    /\ testMagic = <<>>
    /\ testCheck = "none"

Next ==
    \/ MainDstCheck
    \/ MainLoop
    \/ MainOpen
    \/ MainRead
    \/ ParserNew
    \/ ParseMagic
    \/ ParseFileSize
    \/ ParseVersion
    \/ ParseHeaderSize
    \/ ParseI3Variable
    \/ ParseChannels
    \/ ParseSampleRate
    \/ ParseFs2Variable
    \/ ParseI4Channels
    \/ ParseI5Variable
    \/ ParseEndOfHeader
    \/ BodyInit
    \/ BodyWhile
    \/ BodyFor
    \/ MainWavSpec
    \/ MainFileName
    \/ WavCreate
    \/ WavWhile
    \/ WavFor
    \/ WavFinalize
    \/ MainWriteResult

NextMagic ==
    \/ TestParseMagic
    \/ TestCheckMagic

Spec == Init /\ [][Next]_vars

SpecBatch == InitBatch /\ [][Next]_vars

\* The program runs on: a statement that can run does run.
FairBatch == InitBatch /\ [][Next]_vars /\ WF_vars(Next)

SpecMagic == InitMagic /\ [][NextMagic]_vars

-----------------------------------------------------------------------------
(* What the properties below read off a state. *)

\* The values the file holds at a byte offset, written out from the layout.
U16At(b, off) == b[off + 1] + 256 * b[off + 2]

U32At(b, off) ==
    b[off + 1] + 256 * b[off + 2] + 65536 * b[off + 3] + 16777216 * b[off + 4]

F32At(b, off) == <<b[off + 4], b[off + 3], b[off + 2], b[off + 1]>>

BytesAt(b, off, n) == [k \in 1..n |-> b[off + k]]

\* The statement of parse_header about to run, with the offset its field
\* starts at and the fields decoded before it.
HeaderOrder ==
    <<"parse_magic", "parse_file_size", "parse_version", "parse_header_size",
      "parse_i3_variable", "parse_channels", "parse_sample_rate",
      "parse_fs2_variable", "parse_i4_channels", "parse_i5_variable",
      "parse_end_of_header", "body_init">>

FieldOrder ==
    <<"magic", "file_size", "version", "header_size", "i3", "channels",
      "sample_rate", "fs2", "i4", "i5", "data">>

FieldOffset == <<0, 4, 8, 16, 20, 22, 24, 28, 32, 34, 36, 40>>

HeaderPanicLines == (105..115) \cup {172}

TagsValid(b) ==
    /\ Utf8ValidFrom(BytesAt(b, 0, 4), 1)
    /\ Utf8ValidFrom(BytesAt(b, 8, 8), 1)
    /\ Utf8ValidFrom(BytesAt(b, 36, 4), 1)

HeaderDone == DOMAIN header = {FieldOrder[k] : k \in 1..11}

\* The samples the file holds from offset 40 up to the cursor, in file order.
DiskSamples == [k \in 1..((position - 40) \div 4) |-> F32At(buf, 40 + 4 * (k - 1))]

-----------------------------------------------------------------------------
(* C1.  On a buffer of at least 40 bytes whose three tags are UTF-8,       *)
(* parse_header does not fail; its eleven fields are read in the table     *)
(* order, each from its fixed offset (the cursor is at that offset when    *)
(* the field's parser is about to run and exactly the earlier fields are   *)
(* decoded), integers little-endian; and the cursor is at 40 when it       *)
(* returns, whatever header_size says.                                     *)
C1_HeaderLayout ==
    (Len(buf) >= 40 /\ TagsValid(buf)) =>
        /\ (outcome = "Panic" => panic.line \notin HeaderPanicLines)
        /\ \A k \in 1..12 :
              pc = HeaderOrder[k] =>
                 /\ position = FieldOffset[k]
                 /\ DOMAIN header = {FieldOrder[j] : j \in 1..(k - 1)}
        /\ ("magic" \in DOMAIN header => header.magic = BytesAt(buf, 0, 4))
        /\ ("file_size" \in DOMAIN header => header.file_size = U32At(buf, 4))
        /\ ("version" \in DOMAIN header => header.version = BytesAt(buf, 8, 8))
        /\ ("header_size" \in DOMAIN header => header.header_size = U32At(buf, 16))
        /\ ("i3" \in DOMAIN header => header.i3 = U16At(buf, 20))
        /\ ("channels" \in DOMAIN header => header.channels = U16At(buf, 22))
        /\ ("sample_rate" \in DOMAIN header => header.sample_rate = U32At(buf, 24))
        /\ ("fs2" \in DOMAIN header => header.fs2 = U32At(buf, 28))
        /\ ("i4" \in DOMAIN header => header.i4 = U16At(buf, 32))
        /\ ("i5" \in DOMAIN header => header.i5 = U16At(buf, 34))
        /\ ("data" \in DOMAIN header => header.data = BytesAt(buf, 36, 4))

\* parse_header has returned at 40 on a header that declares another size
C1_Witness ==
    /\ pc = "body_init"
    /\ HeaderDone
    /\ position = 40
    /\ header.header_size = 16909060
    /\ header.file_size = 1149048
    /\ header.i3 = 515

-----------------------------------------------------------------------------
\* The input is well formed for C2: channels >= 1, file_size is
\* 40 + frames*channels*4 and the buffer holds file_size bytes.
WellFormedBody ==
    /\ HeaderDone
    /\ header.channels >= 1
    /\ header.file_size >= 40
    /\ (header.file_size - 40) % (header.channels * 4) = 0
    /\ Len(buf) >= header.file_size

Frames == (header.file_size - 40) \div (header.channels * 4)

(* C2.  On a well-formed input parse_body does not fail, and when it       *)
(* returns the body has `channels` sequences of `frames` samples each,     *)
(* sample f of channel c being the four bytes at 40 + (f*channels + c)*4   *)
(* (f and c counted from 0).                                               *)
C2_BodyDeinterleaved ==
    WellFormedBody =>
        /\ (outcome = "Panic" => panic.line # 98)
        /\ pc = "parse_ok" =>
              /\ Len(body) = header.channels
              /\ \A c \in 1..Len(body) :
                    /\ Len(body[c]) = Frames
                    /\ \A f \in 1..Len(body[c]) :
                          body[c][f] =
                             F32At(buf, 40 + ((f - 1) * header.channels + (c - 1)) * 4)

\* two channels of two frames decoded
C2_Witness ==
    /\ pc = "parse_ok"
    /\ WellFormedBody
    /\ header.channels = 2
    /\ Frames = 2
    /\ Len(body[2]) = 2

-----------------------------------------------------------------------------
(* C3.  write_to_wav on a decoded body of K >= 1 channels of N samples     *)
(* each: on entry the body is the de-interleaving of the K*N samples of    *)
(* the file; the samples handed to the encoder are at every moment the     *)
(* first ones of the file, in file (frame-major) order; and when           *)
(* write_to_wav returns Ok they are all K*N of them.                       *)
C3_FrameMajorOutput ==
    (pc \in {"wav_create", "wav_while", "wav_for", "wav_finalize",
             "main_write_result"} /\ Len(body) >= 1) =>
        LET out == outputs[idx].samples IN
        /\ pc = "wav_create" =>
              \A c \in 1..Len(body) :
                 /\ Len(body[c]) * Len(body) = Len(DiskSamples)
                 /\ \A f \in 1..Len(body[c]) :
                       body[c][f] = DiskSamples[(f - 1) * Len(body) + c]
        /\ Len(out) <= Len(DiskSamples)
        /\ \A k \in 1..Len(out) : out[k] = DiskSamples[k]
        /\ (outputs[idx].result = "Ok" => out = DiskSamples)

\* [(L0,R0),(L1,R1)] written out as L0 R0 L1 R1
C3_Witness ==
    /\ pc = "main_write_result"
    /\ outputs[idx].result = "Ok"
    /\ Len(body) = 2
    /\ Len(outputs[idx].samples) = 4
    /\ outputs[idx].samples =
          <<F32At(buf, 40), F32At(buf, 44), F32At(buf, 48), F32At(buf, 52)>>

-----------------------------------------------------------------------------
\* What the parser of the field about to be read returns on (b, pos).
FieldResult(at, b, pos) ==
    CASE at = "parse_magic" -> parse_magic(b, pos)
      [] at = "parse_file_size" -> parse_file_size(b, pos)
      [] at = "parse_version" -> parse_version(b, pos)
      [] at = "parse_header_size" -> parse_header_size(b, pos)
      [] at = "parse_i3_variable" -> parse_i3_variable(b, pos)
      [] at = "parse_channels" -> parse_channels(b, pos)
      [] at = "parse_sample_rate" -> parse_sample_rate(b, pos)
      [] at = "parse_fs2_variable" -> parse_fs2_variable(b, pos)
      [] at = "parse_i4_channels" -> parse_i4_channels(b, pos)
      [] at = "parse_i5_variable" -> parse_i5_variable(b, pos)
      [] at = "parse_end_of_header" -> parse_end_of_header(b, pos)

\* The buffer ends inside the field about to be read.
EndsInsideField ==
    /\ \E k \in 1..11 : pc = HeaderOrder[k] /\ position = FieldOffset[k]
                        /\ Len(buf) < FieldOffset[k + 1]
    /\ Len(buf) > position

\* The header field (1..11) whose read panicked.
PanicField == IF panic.line = 172 THEN 11 ELSE panic.line - 104

(* C4.  When the buffer ends partway through a header field, the field's   *)
(* parser returns the exhaustion error as a value, and neither it nor      *)
(* parse_header nor parse panics.                                          *)
C4_TruncationIsAnErrorValue ==
    /\ EndsInsideField =>
          LET r == FieldResult(pc, buf, position) IN
          r.kind = "Err" /\ r.err = "IoError"
    /\ outcome = "Panic" =>
          ~(/\ panic.line \in HeaderPanicLines
            /\ Len(buf) > FieldOffset[PanicField]
            /\ Len(buf) < FieldOffset[PanicField + 1])

(* C5.  When the version field of a buffer of at least 40 bytes is not     *)
(* UTF-8, parse_header returns the invalid-encoding error as a value: it   *)
(* does not panic.                                                         *)
C5_BadVersionIsAnErrorValue ==
    (/\ Len(buf) >= 40
     /\ Utf8ValidFrom(BytesAt(buf, 0, 4), 1)
     /\ ~Utf8ValidFrom(BytesAt(buf, 8, 8), 1)) =>
        ~(outcome = "Panic" /\ panic.line \in HeaderPanicLines)

-----------------------------------------------------------------------------
\* The run ended because file i could not be opened, read or parsed.
FailedOn(i) ==
    /\ dstOk
    /\ idx = i
    /\ i <= Len(srcs)
    /\ \/ outcome = "Failure" /\ (~srcs[i].openOk \/ ~srcs[i].readOk)
       \/ outcome = "Panic" /\ panic.line \in HeaderPanicLines \cup {98}

Written(i) == outputs[i].result = "Ok" /\ outputs[i].finalized = 1

(* C6, as claimed.  When the run has ended on a failure to open, read or   *)
(* parse one file, every other file has still been opened and written.     *)
C6_OtherFilesStillProcessed ==
    \A i \in 1..Len(srcs) :
       FailedOn(i) => \A j \in (1..Len(srcs)) \ {i} : j \in opened /\ Written(j)

(* C6, amended.  The files are processed strictly in order: a file is      *)
(* opened only when every file before it has been written and finalized,   *)
(* and when the run has ended on a failure to open, read or parse file i,  *)
(* no file after i has been opened or given an output.                     *)
C6_FailureEndsTheBatch ==
    /\ \A j \in opened : j <= idx /\ \A k \in 1..(j - 1) : Written(k)
    /\ \A k \in 1..Len(srcs) : k < idx => Written(k)
    /\ \A k \in 1..Len(srcs) : k > idx => k \notin opened /\ outputs[k] = NoOutput
    /\ \A i \in 1..Len(srcs) :
          FailedOn(i) =>
             /\ pc \in {"exit", "panicked"}
             /\ \A k \in (i + 1)..Len(srcs) : k \notin opened /\ outputs[k] = NoOutput

\* three files, the second cannot be opened: the first is written, the
\* third is never touched
C6_Witness ==
    /\ Len(srcs) = 3
    /\ FailedOn(2)
    /\ ~srcs[2].openOk
    /\ Written(1)
    /\ srcs[3].openOk /\ srcs[3].readOk /\ srcs[3].hasName
    /\ 3 \notin opened

-----------------------------------------------------------------------------
\* write_to_wav ran on file i, got its writer, and is over.
WriteRunEnded(i) == outputs[i].created /\ outputs[i].result # "none"

(* C7.  Every run of write_to_wav that has ended invoked finalize exactly  *)
(* once; in particular none ended with samples written and finalize not    *)
(* invoked.                                                                *)
C7_FinalizedExactlyOnce ==
    \A i \in 1..Len(outputs) : WriteRunEnded(i) => outputs[i].finalized = 1

-----------------------------------------------------------------------------
(* C8.  check_magic answers true exactly when the four bytes handed to it  *)
(* are "wvIR" (0x77 0x76 0x49 0x52).                                       *)
C8_CheckMagic ==
    testCheck # "none" =>
        /\ testMagic = BytesAt(buf, 0, 4)
        /\ testCheck = "true" <=>
              (buf[1] = 119 /\ buf[2] = 118 /\ buf[3] = 73 /\ buf[4] = 82)

\* check_magic has answered false on a string that differs from "wvIR" in
\* its last byte only
C8_Witness ==
    /\ testCheck = "false"
    /\ testMagic = <<119, 118, 73, 70>>

-----------------------------------------------------------------------------
(* C9.  parse_body terminates: once entered, it returns or fails.          *)
C9_ParseBodyTerminates == (pc = "body_init") ~> (pc \in {"parse_ok", "panicked"})

-----------------------------------------------------------------------------
\* parse_body has returned on a header with at least one channel
BodyReturned == pc = "parse_ok" /\ header.channels >= 1

MaxOf(a, b) == IF a >= b THEN a ELSE b

(* C10, as claimed.  When parse_body returns, the cursor is at most        *)
(* max(40, file_size).                                                     *)
C10_StopsAtFileSize ==
    BodyReturned => position <= MaxOf(40, header.file_size)

(* C10, amended.  parse_body reads whole frames: when it returns the       *)
(* cursor is at the first frame boundary 40 + k*channels*4 at or after     *)
(* file_size, so it is less than one frame (channels*4 bytes) past         *)
(* max(40, file_size), and exactly there when file_size - 40 is a          *)
(* multiple of channels*4.                                                 *)
C10_StopsWithinOneFrame ==
    BodyReturned =>
        LET frame == header.channels * 4
            over == position - MaxOf(40, header.file_size)
        IN  /\ position >= 40
            /\ (position - 40) % frame = 0
            /\ over >= 0
            /\ over < frame
            /\ position <= Len(buf)
            /\ ((header.file_size - 40) % frame = 0 => over = 0)

\* two channels, file_size 42: the cursor stops at 48
C10_Witness ==
    /\ BodyReturned
    /\ header.channels = 2
    /\ header.file_size = 42
    /\ position = 48

=============================================================================
